---- MODULE Spec2Model ----
(***************************************************************************)
(* Model of contracts/Futurify.sol: the encrypted ledger and bet           *)
(* settlement of the Futurify prediction market.                           *)
(*                                                                         *)
(* Every public function of the contract is one action.  A call that      *)
(* reverts leaves the contract storage as it was and is visible only in   *)
(* lastCall, the record of the call just executed.                        *)
(*                                                                         *)
(* A confidential value is a record [id, val]: id is the ciphertext       *)
(* handle, val the cleartext the handle decrypts to.  Every FHE operation *)
(* whose result is stored yields a handle that has not been used before   *)
(* (named after the storage slot and a version number), and the access    *)
(* control list acl is the set of (handle, principal) grants issued by    *)
(* FHE.allowThis, FHE.allow and FHE.makePubliclyDecryptable.              *)
(*                                                                         *)
(* Widths are scaled so that the arithmetic stays enumerable: euint64 is  *)
(* an unsigned integer modulo UINT64_MAX + 1, and one ether is ETHER wei. *)
(* The ratio ETHER / COINS_PER_ETH stays above one, as in the contract,   *)
(* so the integer division of buyCoins truncates in the model as well.    *)
(***************************************************************************)
EXTENDS Integers, Sequences, FiniteSets, TLC

(* ------------------------------ bounds --------------------------------- *)
\* number of committed transactions explored
MaxTime == 3
\* number of committed transactions explored with the narrow inputs of SpecDeep
MaxTimeDeep == 5
MaxTimeMid == 4
\* number of committed transactions explored with the inputs of SpecClose
MaxTimeClose == 6
\* number of purchases, creations and bets explored by SpecLive
MaxTimeLive == 3
\* number of predictions that may be created
MaxPredictions == 2

(* ------------------------ program constants ---------------------------- *)
\* uint256 public constant COINS_PER_ETH (scaled)
COINS_PER_ETH == 2
\* "1 ether", in wei (scaled)
ETHER == 4
\* type(uint64).max (scaled: euint64 is modelled on 2 bits)
UINT64_MAX == 3
\* largest cleartext of an euint8 (scaled: euint8 is modelled on 3 bits)
UINT8_MAX == 7

(* ------------------------------ inputs --------------------------------- *)
Accounts == {"alice", "bob"}
\* the contract itself (FHE.allowThis) and the public tier
THIS == "this"
PUBLIC == "public"
\* msg.value, in wei
Values == {0, 1, 6, 8}
\* cleartext of the submitted encrypted choice
Choices == {0, 1, 3, 4}
\* cleartext of the submitted encrypted amount
Amounts == {0, 1, UINT64_MAX}
\* options.length of a createPrediction call
OptionLengths == {1, 2, 4, 5}
OptionNames == <<"A", "B", "C", "D", "E">>
Titles == {"Rain tomorrow?"}
\* prediction ids a caller may name (one more than can exist)
PredictionIds == 0 .. MaxPredictions
Slots == 0 .. 3

VARIABLES
    predictionCount,   \* uint256 public predictionCount
    _predictions,      \* mapping(uint256 => Prediction)
    _balances,         \* mapping(address => euint64)
    _userChoices,      \* mapping(uint256 => mapping(address => euint8))
    _userBets,         \* mapping(uint256 => mapping(address => euint64))
    acl,               \* grants: set of [h: handle, who: principal]
    now,               \* block.timestamp, one tick per committed transaction
    lastCall,          \* the call just executed and its outcome
    applied,           \* history: per prediction, sum of the amounts of valid bets
    endCount,          \* history: per prediction, number of successful endPrediction calls
    created,           \* history: number of successful createPrediction calls
    mintedCoins,       \* history: per account, unbounded sum of the coins bought
    spentCoins,        \* history: per account, unbounded sum of the amounts of its valid bets
    contributed        \* history: per prediction and slot, unbounded sum of the valid bets on it

vars == <<predictionCount, _predictions, _balances, _userChoices, _userBets,
          acl, now, lastCall, applied, endCount, created,
          mintedCoins, spentCoins, contributed>>

(* --------------------------- ciphertexts ------------------------------- *)
Handle(kind, p, a, i, v) == [kind |-> kind, p |-> p, a |-> a, i |-> i, v |-> v]
\* the zero handle of a storage slot that was never written
NoHandle == Handle("none", -1, "", -1, 0)
Ct(id, val) == [id |-> id, val |-> val]
NoCt == Ct(NoHandle, 0)
Grant(h, who) == [h |-> h, who |-> who]

\* mutant: the grants of the new value replace the list instead of extending it
allowBoth_replace(grants, ct, who) == {Grant(ct.id, THIS), Grant(ct.id, who)}
\* mutant: FHE.allow is forgotten, only the contract is allowed
allowBoth_thisOnly(grants, ct, who) == grants \cup {Grant(ct.id, THIS)}
\* FHE.allowThis(v); FHE.allow(v, who)
allowBoth(grants, ct, who) == grants \cup {Grant(ct.id, THIS), Grant(ct.id, who)}
\* mutant: the public grant is not issued
makePubliclyDecryptable_noop(grants, ct) == grants
\* FHE.makePubliclyDecryptable(v)
makePubliclyDecryptable(grants, ct) == grants \cup {Grant(ct.id, PUBLIC)}

(* ------------------- encrypted value algebra (cleartext) --------------- *)
FHE_add(a, b) == (a + b) % (UINT64_MAX + 1)
FHE_sub(a, b) == (a - b) % (UINT64_MAX + 1)
FHE_lt(a, b) == a < b
FHE_le(a, b) == a <= b
FHE_eq(a, b) == a = b
FHE_and(a, b) == a /\ b
FHE_select(c, a, b) == IF c THEN a ELSE b

(* ----------------------------- storage --------------------------------- *)
NoAddress == ""
NoPrediction ==
    [title |-> "", options |-> <<>>, optionCount |-> 0, creator |-> NoAddress,
     createdAt |-> 0, isOpen |-> FALSE, optionTotals |-> [i \in Slots |-> NoCt]]

\* the contract storage as one record
Storage ==
    [predictionCount |-> predictionCount, predictions |-> _predictions,
     balances |-> _balances, userChoices |-> _userChoices,
     userBets |-> _userBets, acl |-> acl]

OK == "none"
\* mutant: the error surfaces but the counter written before the check is kept
Revert_partial(err) == [err |-> err, st |-> [Storage EXCEPT !.predictionCount = @ + 1], ret |-> -1]
\* a revert: the error surfaces and the storage is the one before the call
Revert(err) == [err |-> err, st |-> Storage, ret |-> -1]
\* a call that returns: ret is the returned value, -1 when there is none
Commit(st) == [err |-> OK, st |-> st, ret |-> -1]

(* ----------------------------- buyCoins -------------------------------- *)
\* uint256 coinAmount = (msg.value * COINS_PER_ETH) / 1 ether;
coinAmount(value) == (value * COINS_PER_ETH) \div ETHER

\* mutant: a payment of zero is accepted
buyCoinsError_noZeroCheck(value) ==
    IF ~(coinAmount(value) <= UINT64_MAX) THEN "Amount too large"
    ELSE OK

\* require(msg.value > 0, ...); require(coinAmount <= type(uint64).max, ...)
buyCoinsError(value) ==
    IF ~(value > 0) THEN "No ETH sent"
    ELSE IF ~(coinAmount(value) <= UINT64_MAX) THEN "Amount too large"
    ELSE OK

buyCoins(sender, value) ==
    IF buyCoinsError(value) # OK THEN Revert(buyCoinsError(value))
    ELSE
      LET minted == coinAmount(value)
          old == _balances[sender]
          new == Ct(Handle("balance", -1, sender, -1, old.id.v + 1),
                    FHE_add(old.val, minted))
      IN Commit([Storage EXCEPT
                   !.balances = [_balances EXCEPT ![sender] = new],
                   !.acl = allowBoth(acl, new, sender)])

(* ------------------------------ getters -------------------------------- *)
\* a view function returns ret and leaves the storage as it is
Return(ret) == [err |-> OK, st |-> Storage, ret |-> ret]

\* mutant: a closed prediction is reported as missing
NotFound_closed(prediction) == prediction.optionCount < 2 \/ ~prediction.isOpen

\* if (prediction.optionCount < 2) revert PredictionNotFound(predictionId)
NotFound(prediction) == prediction.optionCount < 2

getPrediction(predictionId) ==
    LET prediction == _predictions[predictionId] IN
    IF NotFound(prediction) THEN Revert("PredictionNotFound")
    ELSE Return([title |-> prediction.title, options |-> prediction.options,
                 optionCount |-> prediction.optionCount, isOpen |-> prediction.isOpen,
                 createdAt |-> prediction.createdAt, creator |-> prediction.creator])

getPredictionTotals(predictionId) ==
    LET prediction == _predictions[predictionId] IN
    IF NotFound(prediction) THEN Revert("PredictionNotFound")
    ELSE Return([i \in Slots |-> prediction.optionTotals[i].id])

getUserChoice(predictionId, user) ==
    LET prediction == _predictions[predictionId] IN
    IF NotFound(prediction) THEN Revert("PredictionNotFound")
    ELSE Return(_userChoices[predictionId][user].id)

getUserBet(predictionId, user) ==
    LET prediction == _predictions[predictionId] IN
    IF NotFound(prediction) THEN Revert("PredictionNotFound")
    ELSE Return(_userBets[predictionId][user].id)

(* -------------------------- createPrediction --------------------------- *)
\* mutant: the upper limit on the number of options is not checked
InvalidOptions_noUpper(optionsLength) == optionsLength < 2
InvalidOptions(optionsLength) == optionsLength < 2 \/ optionsLength > 4

\* mutant: every prediction is stored under id 0
allocateId_reuse(count) == 0
\* mutant: the counter is advanced before the id is read
allocateId_afterIncrement(count) == count + 1
\* predictionId = predictionCount;
allocateId(count) == count

createPrediction(sender, title, options) ==
    LET optionsLength == Len(options) IN
    IF InvalidOptions(optionsLength) THEN Revert("InvalidOptions")
    ELSE
      LET predictionId == allocateId(predictionCount)
          totals == [i \in Slots |-> Ct(Handle("total", predictionId, "", i, 1), 0)]
          prediction ==
              [title |-> title, options |-> options, optionCount |-> optionsLength,
               creator |-> sender, createdAt |-> now, isOpen |-> TRUE,
               optionTotals |-> totals]
      IN [Commit([Storage EXCEPT
                   !.predictionCount = predictionCount + 1,
                   !.predictions = [_predictions EXCEPT ![predictionId] = prediction],
                   !.acl = acl \cup UNION {allowBoth({}, totals[i], sender) : i \in Slots}])
          EXCEPT !.ret = predictionId]

(* ------------------------------ placeBet ------------------------------- *)
\* mutant: a closed prediction still takes bets
placeBetError_noOpenCheck(prediction, proofOk) ==
    IF prediction.optionCount < 2 THEN "PredictionNotFound"
    ELSE IF ~proofOk THEN "ProofError"
    ELSE OK

\* the structural checks, in the order of the code; fromExternal verifies the proof
\* mutant: the input proof is verified before the prediction is looked up
placeBetError_proofFirst(prediction, proofOk) ==
    IF ~proofOk THEN "ProofError"
    ELSE IF prediction.optionCount < 2 THEN "PredictionNotFound"
    ELSE IF ~prediction.isOpen THEN "PredictionClosed"
    ELSE OK

placeBetError(prediction, proofOk) ==
    IF prediction.optionCount < 2 THEN "PredictionNotFound"
    ELSE IF ~prediction.isOpen THEN "PredictionClosed"
    ELSE IF ~proofOk THEN "ProofError"
    ELSE OK

\* mutant: the balance is not compared with the amount
canBet_choiceOnly(choice, amount, balance, optionCount) == FHE_lt(choice, optionCount)

\* ebool canBet = FHE.and(choiceValid, balanceEnough)
canBet(choice, amount, balance, optionCount) ==
    FHE_and(FHE_lt(choice, optionCount), FHE_le(amount, balance))

\* mutant: the amount is spent whether or not the bet is allowed
spendOf_unmasked(allowed, amount) == amount

\* mutant: the selection is inverted, a refused bet spends its amount
spendOf_inverted(allowed, amount) == FHE_select(~allowed, amount, 0)

\* euint64 spend = FHE.select(canBet, amount, FHE.asEuint64(0))
spendOf(allowed, amount) == FHE_select(allowed, amount, 0)

\* mutant: the balance is left as it was
debitOf_none(balance, spend) == balance

\* _balances[msg.sender] = FHE.sub(_balances[msg.sender], spend)
debitOf(balance, spend) == FHE_sub(balance, spend)

\* mutant: the submitted choice is stored unmasked
storedChoiceOf_raw(allowed, choice) == choice

\* euint8 storedChoice = FHE.select(canBet, choice, FHE.asEuint8(0))
storedChoiceOf(allowed, choice) == FHE_select(allowed, choice, 0)

\* euint64 addAmount = FHE.select(FHE.eq(choice, uint8(i)), spend, FHE.asEuint64(0))
addAmount(choice, i, spend) == FHE_select(FHE_eq(choice, i), spend, 0)

\* mutant: the bet is added to the stored amount instead of replacing it
storedAmountOf_accumulate(previous, spend) == FHE_add(previous, spend)

\* _userBets[predictionId][msg.sender] = spend;
storedAmountOf(previous, spend) == spend

\* mutant: the creator, not the caller, is allowed on the stored wager
wagerGrantee_creator(prediction, sender) == prediction.creator

\* FHE.allow(_userChoices[predictionId][msg.sender], msg.sender), and the same for _userBets
wagerGrantee(prediction, sender) == sender

\* mutant: the caller, not the creator, is allowed on the new totals
totalGrantee_sender(prediction, sender) == sender

\* FHE.allow(prediction.optionTotals[i], prediction.creator)
totalGrantee(prediction, sender) == prediction.creator

\* mutant: the wager is written under the caller's key for every prediction
setWager_allPredictions(wagers, predictionId, sender, ct) ==
    [p \in PredictionIds |-> [wagers[p] EXCEPT ![sender] = ct]]

\* _userChoices[predictionId][msg.sender] = ..., and the same for _userBets
setWager(wagers, predictionId, sender, ct) ==
    [wagers EXCEPT ![predictionId][sender] = ct]

\* mutant: only the slot of the submitted choice is written
updateTotals_onlyChosen(prediction, predictionId, choice, spend) ==
    [i \in Slots |->
        IF i < prediction.optionCount /\ i = choice
        THEN LET old == prediction.optionTotals[i]
             IN Ct(Handle("total", predictionId, "", i, old.id.v + 1),
                   FHE_add(old.val, spend))
        ELSE prediction.optionTotals[i]]

\* mutant: the loop writes all four slots, whatever optionCount is
updateTotals_allSlots(prediction, predictionId, choice, spend) ==
    [i \in Slots |->
        LET old == prediction.optionTotals[i]
        IN Ct(Handle("total", predictionId, "", i, old.id.v + 1),
              FHE_add(old.val, addAmount(choice, i, spend)))]

\* the loop over the four slots: only i < optionCount is written
updateTotals(prediction, predictionId, choice, spend) ==
    [i \in Slots |->
        IF i < prediction.optionCount
        THEN LET old == prediction.optionTotals[i]
             IN Ct(Handle("total", predictionId, "", i, old.id.v + 1),
                   FHE_add(old.val, addAmount(choice, i, spend)))
        ELSE prediction.optionTotals[i]]

placeBet(sender, predictionId, choice, amount, proofOk) ==
    LET prediction == _predictions[predictionId]
        err == placeBetError(prediction, proofOk)
    IN
    IF err # OK THEN Revert(err)
    ELSE
      LET oldBalance == _balances[sender]
          allowed == canBet(choice, amount, oldBalance.val, prediction.optionCount)
          spend == spendOf(allowed, amount)
          newBalance == Ct(Handle("balance", -1, sender, -1, oldBalance.id.v + 1),
                           debitOf(oldBalance.val, spend))
          newChoice == Ct(Handle("choice", predictionId, sender, -1,
                                 _userChoices[predictionId][sender].id.v + 1),
                          storedChoiceOf(allowed, choice))
          newBet == Ct(Handle("bet", predictionId, sender, -1,
                              _userBets[predictionId][sender].id.v + 1),
                       storedAmountOf(_userBets[predictionId][sender].val, spend))
          newTotals == updateTotals(prediction, predictionId, choice, spend)
          written == {i \in Slots : newTotals[i].id # prediction.optionTotals[i].id}
          acl1 == allowBoth(acl, newBalance, sender)
          acl2 == allowBoth(allowBoth(acl1, newChoice, wagerGrantee(prediction, sender)),
                            newBet, wagerGrantee(prediction, sender))
          acl3 == acl2 \cup UNION {allowBoth({}, newTotals[i], totalGrantee(prediction, sender)) : i \in written}
      IN Commit([Storage EXCEPT
                   !.balances = [_balances EXCEPT ![sender] = newBalance],
                   !.userChoices = setWager(_userChoices, predictionId, sender, newChoice),
                   !.userBets = setWager(_userBets, predictionId, sender, newBet),
                   !.predictions = [_predictions EXCEPT ![predictionId].optionTotals = newTotals],
                   !.acl = acl3])

(* ---------------------------- endPrediction ---------------------------- *)
\* mutant: a closed prediction can be closed again
endPredictionError_noOpenCheck(prediction, sender) ==
    IF prediction.optionCount < 2 THEN "PredictionNotFound"
    ELSE IF sender # prediction.creator THEN "OnlyCreator"
    ELSE OK

\* mutant: any account may close
endPredictionError_anyCaller(prediction, sender) ==
    IF prediction.optionCount < 2 THEN "PredictionNotFound"
    ELSE IF ~prediction.isOpen THEN "PredictionClosed"
    ELSE OK

\* mutant: the creator test is inverted
endPredictionError_inverted(prediction, sender) ==
    IF prediction.optionCount < 2 THEN "PredictionNotFound"
    ELSE IF sender = prediction.creator THEN "OnlyCreator"
    ELSE IF ~prediction.isOpen THEN "PredictionClosed"
    ELSE OK

\* mutant: the state is checked before the caller
endPredictionError_stateFirst(prediction, sender) ==
    IF prediction.optionCount < 2 THEN "PredictionNotFound"
    ELSE IF ~prediction.isOpen THEN "PredictionClosed"
    ELSE IF sender # prediction.creator THEN "OnlyCreator"
    ELSE OK

endPredictionError(prediction, sender) ==
    IF prediction.optionCount < 2 THEN "PredictionNotFound"
    ELSE IF sender # prediction.creator THEN "OnlyCreator"
    ELSE IF ~prediction.isOpen THEN "PredictionClosed"
    ELSE OK

\* mutant: all four slots are made public
publicSlots_all(prediction) == Slots
\* for (uint256 i = 0; i < prediction.optionCount; i++)
publicSlots(prediction) == {j \in Slots : j < prediction.optionCount}

endPrediction(sender, predictionId) ==
    LET prediction == _predictions[predictionId]
        err == endPredictionError(prediction, sender)
    IN
    IF err # OK THEN Revert(err)
    ELSE Commit([Storage EXCEPT
                   !.predictions = [_predictions EXCEPT ![predictionId].isOpen = FALSE],
                   !.acl = acl \cup UNION {makePubliclyDecryptable({}, prediction.optionTotals[i]) :
                                              i \in publicSlots(prediction)}])

(* --------------------------- the state machine ------------------------- *)
Call(op, sender, id, value, n, choice, amount, proofOk, err) ==
    [op |-> op, sender |-> sender, id |-> id, value |-> value, n |-> n,
     choice |-> choice, amount |-> amount, proofOk |-> proofOk, err |-> err]

NoCall == Call("deploy", NoAddress, -1, 0, 0, 0, 0, TRUE, OK)

\* the inputs callers draw from, and the number of committed transactions
Inputs ==
    [values |-> Values, lengths |-> OptionLengths, choices |-> Choices,
     amounts |-> Amounts, proofs |-> BOOLEAN, limit |-> MaxTime, prune |-> TRUE]

\* narrow inputs for long runs: full-range purchases and bets on option 0
DeepInputs ==
    [values |-> {6}, lengths |-> {2}, choices |-> {0},
     amounts |-> {UINT64_MAX}, proofs |-> {TRUE}, limit |-> MaxTimeDeep, prune |-> TRUE]

\* two-option predictions, one purchase size and small bets: room for an
\* account to bet twice on the same prediction
MidInputs ==
    [values |-> {6}, lengths |-> {2}, choices |-> {0, 1, 4},
     amounts |-> {1, 2}, proofs |-> {TRUE}, limit |-> MaxTimeMid, prune |-> TRUE]

\* every option count, every choice an euint8 can hold, every amount, and
\* purchases of 1, 2 and 3 coins
WideInputs ==
    [values |-> {2, 4, 6}, lengths |-> {2, 3, 4}, choices |-> 0 .. UINT8_MAX,
     amounts |-> 0 .. UINT64_MAX, proofs |-> {TRUE}, limit |-> MaxTime, prune |-> TRUE]

\* full-range purchases and bets on option 0, long enough to close a
\* prediction after two such bets
CloseInputs ==
    [values |-> {6}, lengths |-> {2}, choices |-> {0},
     amounts |-> {UINT64_MAX}, proofs |-> {TRUE}, limit |-> MaxTimeClose, prune |-> TRUE]

\* inputs of the runs in which failed calls are followed by further calls:
\* valid and masked bets, any caller; a close is not counted against the
\* limit on purchases, creations and bets
LiveInputs ==
    [values |-> {6}, lengths |-> {2}, choices |-> {0, 3},
     amounts |-> {UINT64_MAX}, proofs |-> {TRUE}, limit |-> MaxTimeLive, prune |-> FALSE]
LiveCloseInputs == [LiveInputs EXCEPT !.limit = MaxTimeLive + MaxPredictions]

\* the view functions
QueryOps == {"getPrediction", "getPredictionTotals", "getUserChoice", "getUserBet"}

Init ==
    /\ predictionCount = 0
    /\ _predictions = [p \in PredictionIds |-> NoPrediction]
    /\ _balances = [a \in Accounts |-> NoCt]
    /\ _userChoices = [p \in PredictionIds |-> [a \in Accounts |-> NoCt]]
    /\ _userBets = [p \in PredictionIds |-> [a \in Accounts |-> NoCt]]
    /\ acl = {}
    /\ now = 0
    /\ lastCall = NoCall
    /\ applied = [p \in PredictionIds |-> 0]
    /\ endCount = [p \in PredictionIds |-> 0]
    /\ created = 0
    /\ mintedCoins = [a \in Accounts |-> 0]
    /\ spentCoins = [a \in Accounts |-> 0]
    /\ contributed = [p \in PredictionIds |-> [i \in Slots |-> 0]]

\* One transaction; r is the outcome the function computed.  A reverted call
\* changes nothing but lastCall, so the calls that can follow it are the calls
\* that could have been made in its place: with in.prune the exploration
\* records the revert and continues from the committed states only.
Execute(r, in) ==
    /\ in.prune => lastCall.err = OK
    /\ lastCall.op \notin QueryOps
    /\ r.err = OK => now < in.limit
    /\ predictionCount' = r.st.predictionCount
    /\ _predictions' = r.st.predictions
    /\ _balances' = r.st.balances
    /\ _userChoices' = r.st.userChoices
    /\ _userBets' = r.st.userBets
    /\ acl' = r.st.acl
    /\ now' = IF r.err = OK THEN now + 1 ELSE now

BuyCoins(in) ==
    \E sender \in Accounts, value \in in.values :
        LET r == buyCoins(sender, value) IN
        /\ Execute(r, in)
        /\ lastCall' = Call("buyCoins", sender, -1, value, 0, 0, 0, TRUE, r.err)
        /\ mintedCoins' = IF r.err = OK
                          THEN [mintedCoins EXCEPT ![sender] = @ + coinAmount(value)]
                          ELSE mintedCoins
        /\ UNCHANGED <<applied, endCount, created, spentCoins, contributed>>

CreatePrediction(in) ==
    \E sender \in Accounts, title \in Titles, n \in in.lengths :
        LET r == createPrediction(sender, title, SubSeq(OptionNames, 1, n)) IN
        /\ r.err = OK => predictionCount < MaxPredictions
        /\ Execute(r, in)
        /\ lastCall' = Call("createPrediction", sender, r.ret, 0, n, 0, 0, TRUE, r.err)
        /\ created' = IF r.err = OK THEN created + 1 ELSE created
        /\ UNCHANGED <<applied, endCount, mintedCoins, spentCoins, contributed>>

\* the bet is valid on confidential grounds, as the ledger rule states it
ValidBet(predictionId, sender, choice, amount) ==
    /\ choice < _predictions[predictionId].optionCount
    /\ amount <= _balances[sender].val

\* the ciphertext inputs of a reverted call leave no trace
PlaceBet(in) ==
    \E sender \in Accounts, predictionId \in PredictionIds,
       choice \in in.choices, amount \in in.amounts, proofOk \in in.proofs :
        LET r == placeBet(sender, predictionId, choice, amount, proofOk) IN
        /\ Execute(r, in)
        /\ lastCall' = IF r.err = OK
                       THEN Call("placeBet", sender, predictionId, 0, 0, choice, amount, proofOk, OK)
                       ELSE Call("placeBet", sender, predictionId, 0, 0, 0, 0, proofOk, r.err)
        /\ applied' = IF r.err = OK /\ ValidBet(predictionId, sender, choice, amount)
                      THEN [applied EXCEPT ![predictionId] = @ + amount]
                      ELSE applied
        /\ spentCoins' = IF r.err = OK /\ ValidBet(predictionId, sender, choice, amount)
                         THEN [spentCoins EXCEPT ![sender] = @ + amount]
                         ELSE spentCoins
        /\ contributed' = IF r.err = OK /\ ValidBet(predictionId, sender, choice, amount)
                          THEN [contributed EXCEPT ![predictionId][choice] = @ + amount]
                          ELSE contributed
        /\ UNCHANGED <<endCount, created, mintedCoins>>

EndPredictionBy(in, sender, predictionId) ==
    LET r == endPrediction(sender, predictionId) IN
    /\ Execute(r, in)
    /\ lastCall' = Call("endPrediction", sender, predictionId, 0, 0, 0, 0, TRUE, r.err)
    /\ endCount' = IF r.err = OK THEN [endCount EXCEPT ![predictionId] = @ + 1]
                   ELSE endCount
    /\ UNCHANGED <<applied, created, mintedCoins, spentCoins, contributed>>

EndPrediction(in) ==
    \E sender \in Accounts, predictionId \in PredictionIds :
        EndPredictionBy(in, sender, predictionId)

Next ==
    \/ BuyCoins(Inputs)
    \/ CreatePrediction(Inputs)
    \/ PlaceBet(Inputs)
    \/ EndPrediction(Inputs)

Spec == Init /\ [][Next]_vars

NextDeep ==
    \/ BuyCoins(DeepInputs)
    \/ CreatePrediction(DeepInputs)
    \/ PlaceBet(DeepInputs)
    \/ EndPrediction(DeepInputs)

SpecDeep == Init /\ [][NextDeep]_vars

\* One call of a view function; r is the outcome it computed.  The calls that
\* can follow it are the calls that could have been made in its place.
Query(r) ==
    /\ lastCall.err = OK
    /\ lastCall.op \notin QueryOps
    /\ predictionCount' = r.st.predictionCount
    /\ _predictions' = r.st.predictions
    /\ _balances' = r.st.balances
    /\ _userChoices' = r.st.userChoices
    /\ _userBets' = r.st.userBets
    /\ acl' = r.st.acl
    /\ UNCHANGED <<now, applied, endCount, created, mintedCoins, spentCoins, contributed>>

GetPrediction ==
    \E predictionId \in PredictionIds :
        LET r == getPrediction(predictionId) IN
        /\ Query(r)
        /\ lastCall' = Call("getPrediction", NoAddress, predictionId, 0, 0, 0, 0, TRUE, r.err)

GetPredictionTotals ==
    \E predictionId \in PredictionIds :
        LET r == getPredictionTotals(predictionId) IN
        /\ Query(r)
        /\ lastCall' = Call("getPredictionTotals", NoAddress, predictionId, 0, 0, 0, 0, TRUE, r.err)

GetUserChoice ==
    \E predictionId \in PredictionIds, user \in Accounts :
        LET r == getUserChoice(predictionId, user) IN
        /\ Query(r)
        /\ lastCall' = Call("getUserChoice", user, predictionId, 0, 0, 0, 0, TRUE, r.err)

GetUserBet ==
    \E predictionId \in PredictionIds, user \in Accounts :
        LET r == getUserBet(predictionId, user) IN
        /\ Query(r)
        /\ lastCall' = Call("getUserBet", user, predictionId, 0, 0, 0, 0, TRUE, r.err)

NextMid ==
    \/ BuyCoins(MidInputs)
    \/ CreatePrediction(MidInputs)
    \/ PlaceBet(MidInputs)
    \/ EndPrediction(MidInputs)

SpecMid == Init /\ [][NextMid]_vars

NextRead ==
    \/ NextMid
    \/ GetPrediction
    \/ GetPredictionTotals
    \/ GetUserChoice
    \/ GetUserBet

SpecRead == Init /\ [][NextRead]_vars

NextClose ==
    \/ BuyCoins(CloseInputs)
    \/ CreatePrediction(CloseInputs)
    \/ PlaceBet(CloseInputs)
    \/ EndPrediction(CloseInputs)

SpecClose == Init /\ [][NextClose]_vars

\* the creator of p calls endPrediction(p)
CreatorCloses(p) ==
    /\ _predictions[p].optionCount >= 2
    /\ EndPredictionBy(LiveCloseInputs, _predictions[p].creator, p)

NextLive ==
    \/ BuyCoins(LiveInputs)
    \/ CreatePrediction(LiveInputs)
    \/ PlaceBet(LiveInputs)
    \/ EndPrediction(LiveCloseInputs)

\* every transaction the creator submits is eventually executed
SpecLive ==
    /\ Init /\ [][NextLive]_vars
    /\ \A p \in PredictionIds : WF_vars(CreatorCloses(p))

NextWide ==
    \/ BuyCoins(WideInputs)
    \/ CreatePrediction(WideInputs)
    \/ PlaceBet(WideInputs)
    \/ EndPrediction(WideInputs)

SpecWide == Init /\ [][NextWide]_vars

(* ------------------------- shared vocabulary --------------------------- *)
Exists(p) == _predictions[p].optionCount >= 2
\* the step just taken was the call op, with outcome err
Called(op) == lastCall'.op = op
Committed(op) == lastCall'.op = op /\ lastCall'.err = OK
OptionSlots(p) == {i \in Slots : i < _predictions[p].optionCount}
RECURSIVE SumOver(_, _)
SumOver(f, S) ==
    IF S = {} THEN 0
    ELSE LET x == CHOOSE y \in S : TRUE IN f[x] + SumOver(f, S \ {x})
TotalsSum(p) == SumOver([i \in Slots |-> _predictions[p].optionTotals[i].val], OptionSlots(p))
GranteesIn(grants, h) == {g.who : g \in {x \in grants : x.h = h}}
Grantees(h) == GranteesIn(acl, h)

(* ------------------------------- claims -------------------------------- *)

\* C1: a committed placeBet with choice c, amount m and pre-balance b leaves the
\* caller's balance at b - m when c < optionCount and m <= b, and at b otherwise;
\* the subtraction never underflows and every balance stays non-negative.
C1_BetDebitsExactly ==
    [][Committed("placeBet") =>
        LET s == lastCall'.sender
            b == _balances[s].val
            m == lastCall'.amount
            c == lastCall'.choice
            oc == _predictions[lastCall'.id].optionCount
        IN /\ _balances'[s].val = IF c < oc /\ m <= b THEN b - m ELSE b
           /\ \A a \in Accounts : _balances'[a].val >= 0]_vars

\* a valid bet of a positive amount smaller than the balance has been applied
C1_Witness ==
    /\ lastCall.op = "placeBet" /\ lastCall.err = OK
    /\ lastCall.amount > 0
    /\ _userBets[lastCall.id][lastCall.sender].val = lastCall.amount
    /\ _balances[lastCall.sender].val > 0

\* C2: for every prediction, the sum of its decrypted option totals equals the
\* sum of the amounts of the valid (non-masked) bets committed on it.
C2_TotalsEqualApplied ==
    \A p \in PredictionIds : Exists(p) => TotalsSum(p) = applied[p]

\* C3: a placeBet on a closed prediction fails with PredictionClosed, whoever
\* calls and whatever the choice, amount and proof are, and leaves the balances,
\* the stored wagers and the option totals unchanged.
C3_BetOnClosedFails ==
    [][(Called("placeBet") /\ Exists(lastCall'.id) /\ ~_predictions[lastCall'.id].isOpen) =>
        /\ lastCall'.err = "PredictionClosed"
        /\ UNCHANGED <<_balances, _userChoices, _userBets, _predictions>>]_vars

\* an account holding coins has bet on a closed prediction
C3_Witness ==
    /\ lastCall.op = "placeBet" /\ lastCall.err = "PredictionClosed"
    /\ _balances[lastCall.sender].val > 0

C5_TotalsCreatorOnlyUntilClose ==
    \A p \in PredictionIds : Exists(p) =>
        /\ _predictions[p].isOpen =>
              \A g \in acl : (g.h.kind = "total" /\ g.h.p = p) =>
                  g.who \in {THIS, _predictions[p].creator}
        /\ ~_predictions[p].isOpen =>
              \A i \in OptionSlots(p) : PUBLIC \in Grantees(_predictions[p].optionTotals[i].id)

\* a prediction was closed after an account other than its creator bet on it
C5_Witness ==
    \E p \in PredictionIds, a \in Accounts :
        /\ Exists(p) /\ ~_predictions[p].isOpen
        /\ a # _predictions[p].creator
        /\ _userBets[p][a].id.v > 0
        /\ _predictions[p].optionTotals[0].id.v > 1

\* C6: a placeBet on an existing open prediction with a valid proof commits;
\* when the bet is invalid on confidential grounds it spends nothing: the stored
\* wager decrypts to choice 0 and amount 0 and the cleartext of the balance and
\* of every option total is unchanged.
C6_InvalidBetIsMasked ==
    [][Called("placeBet") =>
        LET id == lastCall'.id
            s == lastCall'.sender
        IN /\ (Exists(id) /\ _predictions[id].isOpen /\ lastCall'.proofOk) => lastCall'.err = OK
           /\ (lastCall'.err = OK /\ ~ValidBet(id, s, lastCall'.choice, lastCall'.amount)) =>
                 /\ _userChoices'[id][s].val = 0
                 /\ _userBets'[id][s].val = 0
                 /\ _balances'[s].val = _balances[s].val
                 /\ \A i \in Slots :
                       _predictions'[id].optionTotals[i].val = _predictions[id].optionTotals[i].val]_vars

\* a bet the balance covers was masked because its choice is out of range
C6_Witness ==
    /\ lastCall.op = "placeBet" /\ lastCall.err = OK
    /\ lastCall.choice >= _predictions[lastCall.id].optionCount
    /\ lastCall.amount > 0
    /\ _balances[lastCall.sender].val >= lastCall.amount

\* C7: a committed buyCoins with a payment of x ether (value = x * ETHER wei)
\* raises the caller's decrypted balance by exactly x * COINS_PER_ETH.
C7_BuyCreditsExactRate ==
    [][Committed("buyCoins") =>
        LET s == lastCall'.sender
        IN (_balances'[s].val - _balances[s].val) * ETHER = lastCall'.value * COINS_PER_ETH]_vars

\* C8: createPrediction with fewer than 2 or more than 4 options fails with
\* InvalidOptions, allocates no record and leaves predictionCount unchanged.
C8_InvalidOptionsRejected ==
    [][(Called("createPrediction") /\ (lastCall'.n < 2 \/ lastCall'.n > 4)) =>
        /\ lastCall'.err = "InvalidOptions"
        /\ UNCHANGED <<predictionCount, _predictions>>]_vars

\* a create with too many options was rejected after an earlier successful create
C8_Witness ==
    /\ lastCall.op = "createPrediction" /\ lastCall.err = "InvalidOptions"
    /\ lastCall.n > 4
    /\ predictionCount = 1

\* C9: a call that fails leaves the balances, the prediction records and their
\* totals, the stored wagers, the grants and predictionCount as they were, and
\* a call fails only with one of the structural errors.
C9_FailedCallChangesNothing ==
    [][lastCall'.err # OK =>
        /\ UNCHANGED <<predictionCount, _predictions, _balances, _userChoices, _userBets, acl>>
        /\ lastCall'.err \in {"No ETH sent", "Amount too large", "InvalidOptions",
                              "PredictionNotFound", "PredictionClosed", "OnlyCreator",
                              "ProofError"}]_vars

\* a bet with a bad proof on an open prediction by an account holding coins
C9_Witness ==
    /\ lastCall.op = "placeBet" /\ lastCall.err = "ProofError"
    /\ _balances[lastCall.sender].val > 0
    /\ acl # {}

C11_PublicOnlyClosedTotals ==
    [][/\ \A g \in acl' : g.who = PUBLIC =>
             /\ g.h.kind = "total" /\ g.h.p \in PredictionIds
             /\ _predictions'[g.h.p].optionCount >= 2
             /\ ~_predictions'[g.h.p].isOpen
             /\ g.h.i < _predictions'[g.h.p].optionCount
             /\ _predictions'[g.h.p].optionTotals[g.h.i].id = g.h
       /\ Committed("endPrediction") =>
             acl' \ acl = {Grant(_predictions[lastCall'.id].optionTotals[i].id, PUBLIC) :
                              i \in OptionSlots(lastCall'.id)}
       /\ ~Committed("endPrediction") => \A g \in acl' \ acl : g.who # PUBLIC]_vars

\* a prediction with unused slots was closed after a bet: slot 0 is public,
\* slot 3 and the bettor's wager are not
C11_Witness ==
    \E p \in PredictionIds, a \in Accounts :
        /\ Exists(p) /\ ~_predictions[p].isOpen /\ _predictions[p].optionCount < 4
        /\ _userBets[p][a].id.v > 0
        /\ PUBLIC \in Grantees(_predictions[p].optionTotals[0].id)
        /\ PUBLIC \notin Grantees(_predictions[p].optionTotals[3].id)
        /\ PUBLIC \notin Grantees(_userBets[p][a].id)

\* C12: the grant relation only grows: every grant that exists before a call,
\* successful or failing, exists after it.
C12_GrantsOnlyGrow == [][acl \subseteq acl']_vars

\* the first balance value of an account was superseded and is still granted
C12_Witness ==
    \E a \in Accounts :
        /\ _balances[a].id.v >= 2
        /\ Grant(Handle("balance", -1, a, -1, 1), a) \in acl
        /\ Grant(Handle("balance", -1, a, -1, 1), THIS) \in acl

\* C13: the k-th successful createPrediction returns id k - 1; predictionCount
\* equals the number of successful creates and never decreases; the existing
\* predictions are exactly the ids 0 .. predictionCount - 1.
C13_SequentialIds ==
    [][/\ predictionCount' >= predictionCount
       /\ predictionCount' = created'
       /\ Committed("createPrediction") =>
             /\ lastCall'.id = created' - 1
             /\ ~Exists(lastCall'.id)
             /\ _predictions'[lastCall'.id].optionCount >= 2
       /\ \A p \in PredictionIds : (_predictions'[p].optionCount >= 2) <=> (p < predictionCount')]_vars

\* the second successful create returned id 1
C13_Witness ==
    /\ lastCall.op = "createPrediction" /\ lastCall.err = OK
    /\ lastCall.id = 1 /\ predictionCount = 2

\* C14: right after a successful createPrediction the new prediction is open,
\* its creator is the caller, its four total slots decrypt to zero and each is
\* granted to exactly the creator and the contract.
C14_CreateInitialises ==
    [][Committed("createPrediction") =>
        LET P == _predictions'[lastCall'.id]
        IN /\ P.isOpen
           /\ P.creator = lastCall'.sender
           /\ \A i \in Slots :
                 /\ P.optionTotals[i].val = 0
                 /\ GranteesIn(acl', P.optionTotals[i].id) = {THIS, lastCall'.sender}]_vars

\* a second prediction was created by another account than the first
C14_Witness ==
    /\ lastCall.op = "createPrediction" /\ lastCall.err = OK /\ lastCall.id = 1
    /\ _predictions[0].creator # lastCall.sender

\* C15: after a committed placeBet by a on p, the new balance of a and the
\* stored choice and amount of a for p are fresh values granted to exactly a and
\* the contract, and the new value of each slot i < optionCount is granted to
\* exactly the creator of p and the contract.
C15_BetGrants ==
    [][Committed("placeBet") =>
        LET a == lastCall'.sender
            p == lastCall'.id
        IN /\ _balances'[a].id # _balances[a].id
           /\ GranteesIn(acl', _balances'[a].id) = {a, THIS}
           /\ _userChoices'[p][a].id # _userChoices[p][a].id
           /\ GranteesIn(acl', _userChoices'[p][a].id) = {a, THIS}
           /\ _userBets'[p][a].id # _userBets[p][a].id
           /\ GranteesIn(acl', _userBets'[p][a].id) = {a, THIS}
           /\ \A i \in OptionSlots(p) :
                 /\ _predictions'[p].optionTotals[i].id # _predictions[p].optionTotals[i].id
                 /\ GranteesIn(acl', _predictions'[p].optionTotals[i].id) =
                        {_predictions[p].creator, THIS}]_vars

\* an account that is not the creator placed a bet
C15_Witness ==
    /\ lastCall.op = "placeBet" /\ lastCall.err = OK
    /\ lastCall.sender # _predictions[lastCall.id].creator
    /\ _balances[lastCall.sender].id.v >= 2

\* C16: a committed placeBet by a on p leaves a's stored wager for p at the
\* submitted choice and amount when the bet is valid and at (0, 0) otherwise,
\* whatever was stored before; each slot i < optionCount keeps its earlier
\* total and adds this bet's contribution; no other call changes a wager.
C16_WagerOverwritten ==
    [][/\ Committed("placeBet") =>
             LET a == lastCall'.sender
                 p == lastCall'.id
                 valid == ValidBet(p, a, lastCall'.choice, lastCall'.amount)
             IN /\ _userChoices'[p][a].val = IF valid THEN lastCall'.choice ELSE 0
                /\ _userBets'[p][a].val = IF valid THEN lastCall'.amount ELSE 0
                /\ \A i \in OptionSlots(p) :
                      _predictions'[p].optionTotals[i].val =
                          FHE_add(_predictions[p].optionTotals[i].val,
                                  IF valid /\ lastCall'.choice = i THEN lastCall'.amount ELSE 0)
       /\ ~Committed("placeBet") =>
             /\ _userChoices' = _userChoices
             /\ _userBets' = _userBets]_vars

\* an account bet 1 and then 2 on the same option: the stored amount is 2 and
\* the option total is 3
C16_Witness ==
    \E p \in PredictionIds, a \in Accounts :
        /\ lastCall.op = "placeBet" /\ lastCall.err = OK
        /\ lastCall.sender = a /\ lastCall.id = p
        /\ _userBets[p][a].id.v = 2
        /\ _userBets[p][a].val = 2
        /\ _userChoices[p][a].val = 1
        /\ _predictions[p].optionTotals[1].val = 3

\* what an observer without any decryption key sees of a call's outcome: the
\* error, the storage locations that hold a new handle, the grants added
Loc(h) == [kind |-> h.kind, p |-> h.p, a |-> h.a, i |-> h.i]
StoredIds(st) ==
    {st.balances[a].id : a \in Accounts}
    \cup {st.userChoices[p][a].id : p \in PredictionIds, a \in Accounts}
    \cup {st.userBets[p][a].id : p \in PredictionIds, a \in Accounts}
    \cup {st.predictions[p].optionTotals[i].id : p \in PredictionIds, i \in Slots}
PublicOutcome(r) ==
    [err |-> r.err,
     mutated |-> {Loc(h) : h \in StoredIds(r.st) \ StoredIds(Storage)},
     grants |-> r.st.acl \ acl]

\* the outcome of placeBet(sender, p, _, _, proofOk) computed from public data
\* alone: optionCount, isOpen, creator, the handles in storage and the proof
\* verdict; no cleartext of a choice, an amount or a balance occurs in it
NextHandle(h, kind, p, a, i) == Handle(kind, p, a, i, h.v + 1)
PublicBetOutcome(sender, p, proofOk) ==
    LET P == _predictions[p]
        err == IF P.optionCount < 2 THEN "PredictionNotFound"
               ELSE IF ~P.isOpen THEN "PredictionClosed"
               ELSE IF ~proofOk THEN "ProofError"
               ELSE OK
        slots == {i \in Slots : i < P.optionCount}
    IN IF err # OK THEN [err |-> err, mutated |-> {}, grants |-> {}]
       ELSE [err |-> OK,
             mutated |-> {Loc(Handle("balance", -1, sender, -1, 0)),
                          Loc(Handle("choice", p, sender, -1, 0)),
                          Loc(Handle("bet", p, sender, -1, 0))}
                         \cup {Loc(Handle("total", p, "", i, 0)) : i \in slots},
             grants |->
                 {Grant(h, who) :
                     h \in {NextHandle(_balances[sender].id, "balance", -1, sender, -1),
                            NextHandle(_userChoices[p][sender].id, "choice", p, sender, -1),
                            NextHandle(_userBets[p][sender].id, "bet", p, sender, -1)},
                     who \in {THIS, sender}}
                 \cup {Grant(NextHandle(P.optionTotals[i].id, "total", p, "", i), who) :
                          i \in slots, who \in {THIS, P.creator}}]

\* C17: in every reachable state and for every caller, prediction and proof
\* verdict, the public outcome of placeBet (success or error kind, mutated
\* locations, added grants) is the same for every submitted choice and amount
\* and is a function of public data only, so it does not depend on the
\* cleartext of the choice, of the amount or of the caller's balance.
C17_BetOutcomeIsPublic ==
    \A sender \in Accounts, p \in PredictionIds, proofOk \in BOOLEAN :
        \A choice \in Choices, amount \in Amounts :
            PublicOutcome(placeBet(sender, p, choice, amount, proofOk)) =
                PublicBetOutcome(sender, p, proofOk)

\* after a committed bet, the caller can submit a valid and an invalid bet on
\* an open prediction: the resulting balances differ, the public outcomes do not
C17_Witness ==
    /\ lastCall.op = "placeBet" /\ lastCall.err = OK
    /\ \E a \in Accounts, p \in PredictionIds :
         \E c1 \in Choices, c2 \in Choices, m1 \in Amounts, m2 \in Amounts :
           LET r1 == placeBet(a, p, c1, m1, TRUE)
               r2 == placeBet(a, p, c2, m2, TRUE)
           IN /\ r1.err = OK /\ r2.err = OK
              /\ ValidBet(p, a, c1, m1) /\ m1 > 0
              /\ ~ValidBet(p, a, c2, m2)
              /\ r1.st.balances[a].val # r2.st.balances[a].val
              /\ PublicOutcome(r1) = PublicOutcome(r2)

\* the cleartexts an account can obtain in storage st: the stored values whose
\* handle is granted to it or to the public
StoredCts(st) ==
    {st.balances[a] : a \in Accounts}
    \cup {st.userChoices[p][a] : p \in PredictionIds, a \in Accounts}
    \cup {st.userBets[p][a] : p \in PredictionIds, a \in Accounts}
    \cup {st.predictions[p].optionTotals[i] : p \in PredictionIds, i \in Slots}
View(who, st) ==
    {ct \in StoredCts(st) : Grant(ct.id, who) \in st.acl \/ Grant(ct.id, PUBLIC) \in st.acl}

\* C18: while a prediction is open, two bets of one bettor that differ only in
\* the confidential choice or amount leave every other account, the creator
\* included, with the same set of obtainable cleartexts.
C18_WagerHiddenUntilClose ==
    \A bettor \in Accounts, p \in PredictionIds :
        (Exists(p) /\ _predictions[p].isOpen) =>
            \A c1 \in Choices, c2 \in Choices, m1 \in Amounts, m2 \in Amounts :
                \A other \in Accounts \ {bettor} :
                    View(other, placeBet(bettor, p, c1, m1, TRUE).st) =
                        View(other, placeBet(bettor, p, c2, m2, TRUE).st)

C20_UnusedSlotsUntouched ==
    \A p \in PredictionIds :
        Exists(p) =>
            \A i \in Slots \ OptionSlots(p) :
                /\ _predictions[p].optionTotals[i] = Ct(Handle("total", p, "", i, 1), 0)
                /\ Grantees(_predictions[p].optionTotals[i].id) = {THIS, _predictions[p].creator}

\* a funded account bet amount 1 on choice 3 of a two-option prediction
C20_Witness ==
    /\ lastCall.op = "placeBet" /\ lastCall.err = OK
    /\ lastCall.choice = 3 /\ lastCall.amount = 1
    /\ _predictions[lastCall.id].optionCount = 2
    /\ _balances[lastCall.sender].val >= 1
    /\ _predictions[lastCall.id].optionTotals[0].id.v = 2

StorageUnchanged ==
    UNCHANGED <<predictionCount, _predictions, _balances, _userChoices, _userBets, acl>>

\* C22: getPrediction(id) returns the metadata of every existing prediction,
\* open or ended, and fails with PredictionNotFound exactly when
\* id >= predictionCount; getPredictionTotals, getUserChoice and getUserBet fail
\* under the same condition and otherwise return the stored handles; no read
\* changes the storage.
C22_ReadsFailOnlyWhenMissing ==
    /\ [](\A id \in PredictionIds :
            LET P == _predictions[id]
                missing == id >= predictionCount
            IN /\ getPrediction(id) =
                    IF missing THEN Revert("PredictionNotFound")
                    ELSE [err |-> OK, st |-> Storage,
                          ret |-> [title |-> P.title, options |-> P.options,
                                   optionCount |-> P.optionCount, isOpen |-> P.isOpen,
                                   createdAt |-> P.createdAt, creator |-> P.creator]]
               /\ getPredictionTotals(id) =
                    IF missing THEN Revert("PredictionNotFound")
                    ELSE [err |-> OK, st |-> Storage,
                          ret |-> [i \in Slots |-> P.optionTotals[i].id]]
               /\ \A user \in Accounts :
                    /\ getUserChoice(id, user) =
                         IF missing THEN Revert("PredictionNotFound")
                         ELSE [err |-> OK, st |-> Storage, ret |-> _userChoices[id][user].id]
                    /\ getUserBet(id, user) =
                         IF missing THEN Revert("PredictionNotFound")
                         ELSE [err |-> OK, st |-> Storage, ret |-> _userBets[id][user].id])
    /\ [][lastCall'.op \in QueryOps =>
             /\ StorageUnchanged
             /\ lastCall'.err = IF lastCall'.id >= predictionCount
                                THEN "PredictionNotFound" ELSE OK]_vars

\* the metadata of an ended prediction that holds a bet was read
C22_Witness ==
    /\ lastCall.op = "getPrediction" /\ lastCall.err = OK
    /\ ~_predictions[lastCall.id].isOpen
    /\ getPrediction(lastCall.id).ret.creator \in Accounts
    /\ \E a \in Accounts : _userBets[lastCall.id][a].id.v >= 1

\* the cleartexts held in storage st: balances, stored choices and amounts,
\* option totals
Cleartext(st) ==
    [balances |-> [a \in Accounts |-> st.balances[a].val],
     choices |-> [p \in PredictionIds |-> [a \in Accounts |-> st.userChoices[p][a].val]],
     bets |-> [p \in PredictionIds |-> [a \in Accounts |-> st.userBets[p][a].val]],
     totals |-> [p \in PredictionIds |-> [i \in Slots |-> st.predictions[p].optionTotals[i].val]]]

\* C23: a committed bet that is invalid on confidential grounds (choice >=
\* optionCount or amount > balance) leaves the same cleartext state (balances,
\* stored choices and amounts, option totals) as a bet with choice 0 and
\* amount 0 made by the same caller from the same state.
C23_InvalidBetIsZeroBet ==
    [][(/\ Committed("placeBet")
        /\ ~ValidBet(lastCall'.id, lastCall'.sender, lastCall'.choice, lastCall'.amount)) =>
          Cleartext(Storage') =
              Cleartext(placeBet(lastCall'.sender, lastCall'.id, 0, 0, TRUE).st)]_vars

\* a funded account made a bet with a positive amount that was not applied
C23_Witness ==
    /\ lastCall.op = "placeBet" /\ lastCall.err = OK
    /\ lastCall.amount > 0
    /\ _balances[lastCall.sender].val >= 1
    /\ ~ValidBet(lastCall.id, lastCall.sender, lastCall.choice, lastCall.amount)
    /\ _userBets[lastCall.id][lastCall.sender].val = 0
    /\ _userChoices[lastCall.id][lastCall.sender].val = 0

\* C24: in every committed placeBet, with spend = amount when the bet is valid
\* and 0 otherwise, the caller's balance decreases by spend, the stored amount
\* is spend and the option totals of the prediction increase by spend in sum;
\* when spend > 0 the slot of the submitted choice increases by spend and every
\* other slot keeps its value.
C24_EffectsAgreeOnSpend ==
    [][Committed("placeBet") =>
        LET a == lastCall'.sender
            p == lastCall'.id
            c == lastCall'.choice
            spend == IF ValidBet(p, a, c, lastCall'.amount) THEN lastCall'.amount ELSE 0
            increase == [i \in Slots |-> _predictions'[p].optionTotals[i].val
                                           - _predictions[p].optionTotals[i].val]
        IN /\ _balances[a].val - _balances'[a].val = spend
           /\ _userBets'[p][a].val = spend
           /\ SumOver(increase, OptionSlots(p)) = spend
           /\ spend > 0 =>
                 /\ increase[c] = spend
                 /\ \A i \in Slots \ {c} : increase[i] = 0]_vars

\* the slot update as specified: the slot index is compared with
\* storedChoice = select(allowed, choice, 0), not with the submitted choice
SpecifiedTotals(totals, optionCount, choice, amount, balance) ==
    LET allowed == choice < optionCount /\ amount <= balance
        spend == IF allowed THEN amount ELSE 0
        storedChoice == IF allowed THEN choice ELSE 0
    IN [i \in Slots |->
           IF i < optionCount
           THEN (totals[i] + (IF storedChoice = i THEN spend ELSE 0)) % (UINT64_MAX + 1)
           ELSE totals[i]]

\* C25: for every submitted choice an euint8 can hold, every amount, every
\* balance and every optionCount in 2..4, the loop of placeBet, which compares
\* the submitted choice with each slot index, leaves in every slot the
\* cleartext that the specified loop, which compares storedChoice, leaves.
C25_RawChoiceLoopEquivalent ==
    [][Committed("placeBet") =>
        LET p == lastCall'.id
            P == _predictions[p]
        IN [i \in Slots |-> _predictions'[p].optionTotals[i].val] =
               SpecifiedTotals([i \in Slots |-> P.optionTotals[i].val], P.optionCount,
                               lastCall'.choice, lastCall'.amount,
                               _balances[lastCall'.sender].val)]_vars

\* a bet on option 1 of a three-option prediction was refused for its amount:
\* the submitted choice is 1, the stored choice 0
C25_Witness ==
    /\ lastCall.op = "placeBet" /\ lastCall.err = OK
    /\ lastCall.choice = 1 /\ lastCall.amount = 2
    /\ _predictions[lastCall.id].optionCount = 3
    /\ _balances[lastCall.sender].val < 2
    /\ _userChoices[lastCall.id][lastCall.sender].val = 0
    /\ _userBets[lastCall.id][lastCall.sender].val = 0

\* C26: endPrediction fails with PredictionNotFound on an unknown id whoever
\* calls, with OnlyCreator when the caller is not the creator of an existing
\* prediction, open or closed, and with PredictionClosed only when the creator
\* calls on a closed prediction.
C26_EndChecksInOrder ==
    [][Called("endPrediction") =>
        LET P == _predictions[lastCall'.id]
        IN lastCall'.err =
             IF lastCall'.id >= predictionCount THEN "PredictionNotFound"
             ELSE IF lastCall'.sender # P.creator THEN "OnlyCreator"
             ELSE IF ~P.isOpen THEN "PredictionClosed"
             ELSE OK]_vars

\* an account that is not the creator called endPrediction on a prediction
\* that its creator had closed
C26_Witness ==
    /\ lastCall.op = "endPrediction" /\ lastCall.err = "OnlyCreator"
    /\ lastCall.id < predictionCount
    /\ ~_predictions[lastCall.id].isOpen
    /\ endCount[lastCall.id] = 1
    /\ lastCall.sender # _predictions[lastCall.id].creator

\* C27: placeBet fails with PredictionNotFound on an unknown id, with
\* PredictionClosed on a closed prediction even when the input proof is
\* invalid, and with the proof error only on an existing open prediction; a
\* failing call leaves the storage untouched.
C27_BetChecksInOrder ==
    [][Called("placeBet") =>
        LET P == _predictions[lastCall'.id]
        IN /\ lastCall'.err =
                IF lastCall'.id >= predictionCount THEN "PredictionNotFound"
                ELSE IF ~P.isOpen THEN "PredictionClosed"
                ELSE IF ~lastCall'.proofOk THEN "ProofError"
                ELSE OK
           /\ lastCall'.err # OK => StorageUnchanged]_vars

\* a bet with an invalid proof on a closed prediction failed with
\* PredictionClosed
C27_Witness ==
    /\ lastCall.op = "placeBet" /\ lastCall.err = "PredictionClosed"
    /\ ~lastCall.proofOk
    /\ lastCall.id < predictionCount
    /\ ~_predictions[lastCall.id].isOpen

\* sums over the accounts and over the slots of all predictions
AllBalances == SumOver([a \in Accounts |-> _balances[a].val], Accounts)
AllMinted == SumOver(mintedCoins, Accounts)
AllTotals ==
    SumOver([p \in PredictionIds |->
                SumOver([i \in Slots |-> _predictions[p].optionTotals[i].val], Slots)],
            PredictionIds)

\* C28: in every reachable state the balances of all accounts plus the option
\* totals of all predictions, open or ended, add up to the coins minted by the
\* successful buyCoins calls.
C28_CoinsConserved == AllBalances + AllTotals = AllMinted

\* C29: every balance equals the coins its account bought minus the amounts of
\* its applied bets, and every option total equals the sum of the applied
\* amounts bet on it, both computed over the integers and both within the
\* unsigned 64-bit range.
C29_NoWrapAround ==
    /\ \A a \in Accounts :
          /\ _balances[a].val = mintedCoins[a] - spentCoins[a]
          /\ mintedCoins[a] - spentCoins[a] <= UINT64_MAX
    /\ \A p \in PredictionIds, i \in Slots :
          /\ _predictions[p].optionTotals[i].val = contributed[p][i]
          /\ contributed[p][i] <= UINT64_MAX

\* C30: a committed placeBet by a on p changes a's balance, a's stored choice
\* and amount for p and the slots i < optionCount of p, and adds grants on
\* those new values only; every other balance, every other wager, every other
\* prediction, the metadata of p including isOpen, the slots >= optionCount of
\* p, predictionCount and the existing grants are unchanged.
C30_BetFrame ==
    [][Committed("placeBet") =>
        LET a == lastCall'.sender
            p == lastCall'.id
            fresh == {_balances'[a].id, _userChoices'[p][a].id, _userBets'[p][a].id}
                     \cup {_predictions'[p].optionTotals[i].id : i \in OptionSlots(p)}
        IN /\ predictionCount' = predictionCount
           /\ \A b \in Accounts \ {a} : _balances'[b] = _balances[b]
           /\ \A q \in PredictionIds, b \in Accounts :
                 (q # p \/ b # a) =>
                     /\ _userChoices'[q][b] = _userChoices[q][b]
                     /\ _userBets'[q][b] = _userBets[q][b]
           /\ \A q \in PredictionIds \ {p} : _predictions'[q] = _predictions[q]
           /\ [_predictions'[p] EXCEPT !.optionTotals = _predictions[p].optionTotals]
                  = _predictions[p]
           /\ \A i \in Slots \ OptionSlots(p) :
                 _predictions'[p].optionTotals[i] = _predictions[p].optionTotals[i]
           /\ acl \subseteq acl'
           /\ \A g \in acl' \ acl : g.h \in fresh]_vars

\* an account placed its first bet while the other account held coins
C30_Witness ==
    /\ lastCall.op = "placeBet" /\ lastCall.err = OK
    /\ \E b \in Accounts \ {lastCall.sender} : _balances[b].val > 0
    /\ _userBets[lastCall.id][lastCall.sender].id.v = 1

\* C31: a committed endPrediction(p) changes only the isOpen flag of p and adds
\* public grants, leaving every cleartext and predictionCount as they were; and
\* in every state the public totals of a closed prediction equal, slot by slot,
\* the sum of the amounts of the bets applied to it.
C31_CloseIsFinal ==
    /\ [][Committed("endPrediction") =>
            /\ predictionCount' = predictionCount
            /\ _predictions' = [_predictions EXCEPT ![lastCall'.id].isOpen = FALSE]
            /\ _balances' = _balances
            /\ _userChoices' = _userChoices
            /\ _userBets' = _userBets
            /\ Cleartext(Storage') = Cleartext(Storage)
            /\ acl \subseteq acl'
            /\ \A g \in acl' \ acl : g.who = PUBLIC]_vars
    /\ [](\A p \in PredictionIds :
            (Exists(p) /\ ~_predictions[p].isOpen) =>
                \A i \in OptionSlots(p) :
                    /\ PUBLIC \in Grantees(_predictions[p].optionTotals[i].id)
                    /\ _predictions[p].optionTotals[i].val = contributed[p][i])

\* the fields of a prediction that are fixed at creation
Metadata(P) ==
    [title |-> P.title, options |-> P.options, optionCount |-> P.optionCount,
     creator |-> P.creator, createdAt |-> P.createdAt]

\* C32: every existing prediction has an optionCount in 2..4 equal to the
\* number of its option strings, and no call changes the title, options,
\* optionCount, creator or createdAt of an existing prediction.
C32_MetadataFixed ==
    /\ [](\A p \in PredictionIds :
            Exists(p) =>
                /\ _predictions[p].optionCount \in 2 .. 4
                /\ _predictions[p].optionCount = Len(_predictions[p].options))
    /\ [][\A p \in PredictionIds :
            Exists(p) => Metadata(_predictions'[p]) = Metadata(_predictions[p])]_vars

\* prediction 0 was created first and closed after another account created a
\* prediction with another number of options
C32_Witness ==
    /\ predictionCount = 2
    /\ ~_predictions[0].isOpen /\ _predictions[0].createdAt = 0
    /\ _predictions[1].creator # _predictions[0].creator
    /\ _predictions[1].optionCount # _predictions[0].optionCount
    /\ _predictions[1].createdAt = 1

\* C33: buyCoins fails with "No ETH sent" when the payment is zero and with
\* "Amount too large" when the coin amount exceeds the 64-bit maximum, leaving
\* the storage unchanged; every other payment succeeds for any caller in any
\* state, and the first credit of an account starts from a balance of zero.
C33_BuyFailsOnlyOnAmount ==
    /\ [](\A sender \in Accounts, value \in Values :
            buyCoins(sender, value).err =
                IF value = 0 THEN "No ETH sent"
                ELSE IF coinAmount(value) > UINT64_MAX THEN "Amount too large"
                ELSE OK)
    /\ [][Called("buyCoins") =>
            /\ lastCall'.err = buyCoins(lastCall'.sender, lastCall'.value).err
            /\ lastCall'.err # OK => StorageUnchanged
            /\ (lastCall'.err = OK /\ _balances[lastCall'.sender] = NoCt) =>
                   /\ _balances'[lastCall'.sender].val = coinAmount(lastCall'.value)
                   /\ GranteesIn(acl', _balances'[lastCall'.sender].id) =
                          {THIS, lastCall'.sender}]_vars

\* an account that already held coins sent a payment that is too large
C33_Witness ==
    /\ lastCall.op = "buyCoins" /\ lastCall.err = "Amount too large"
    /\ coinAmount(lastCall.value) > UINT64_MAX
    /\ _balances[lastCall.sender].val > 0
    /\ \E b \in Accounts \ {lastCall.sender} : _balances[b] = NoCt

\* C34: every successful buyCoins with a positive payment credits a strictly
\* positive number of coins.
C34_BuyMintsPositive ==
    [][(Committed("buyCoins") /\ lastCall'.value > 0) =>
          /\ coinAmount(lastCall'.value) > 0
          /\ mintedCoins'[lastCall'.sender] > mintedCoins[lastCall'.sender]]_vars

\* C35: in every reachable state, endPrediction(p) called by the creator of an
\* existing open prediction p succeeds, whatever calls came before; and when
\* the creator's call is eventually executed, every open prediction is
\* eventually ended.
C35_CloseNeverBlocked ==
    /\ [](\A p \in PredictionIds :
            (Exists(p) /\ _predictions[p].isOpen) =>
                /\ endPrediction(_predictions[p].creator, p).err = OK
                /\ ~endPrediction(_predictions[p].creator, p).st.predictions[p].isOpen)
    /\ \A p \in PredictionIds :
          (Exists(p) /\ _predictions[p].isOpen) ~> (Exists(p) /\ ~_predictions[p].isOpen)

\* a prediction was closed by its creator after a purchase and an applied bet,
\* when the limit on purchases, creations and bets was used up
C35_Witness ==
    /\ lastCall.op = "endPrediction" /\ lastCall.err = OK
    /\ now = MaxTimeLive + 1
    /\ ~_predictions[lastCall.id].isOpen
    /\ \E a \in Accounts : _userBets[lastCall.id][a].val = UINT64_MAX

====
